---------------------------- MODULE Spec2Model ----------------------------
(***************************************************************************)
(* Model of the data cleaner (src/cleaner.py), of the FHIR exporter        *)
(* (src/exporter.py) and of the two versions of the bundle upload          *)
(* (src/exporter.py, src/supabase_client.py).                              *)
(*                                                                         *)
(* Text.  A Python str is a sequence of characters; a character is a       *)
(* one-token TLA+ string.  Characters outside ASCII are written by name:   *)
(* "NBSP" is U+00A0, "CCARON" U+010C, "ENDASH" U+2013, "EMDASH" U+2014     *)
(* and "FWPIPE" U+FF5C (FULLWIDTH VERTICAL LINE).  A missing value (None / *)
(* NaN) is the cell NaN, a one-token sequence no str can equal.            *)
(*                                                                         *)
(* Column names with diacritics are written without them ("Oddeleni" for   *)
(* the Czech header of column_map); names that differ in the source still  *)
(* differ here.                                                            *)
(*                                                                         *)
(* pandas: a DataFrame is [columns, index, data]; index keeps the row      *)
(* labels of the frame it was filtered from, data[i] maps a column name to *)
(* the cell of row i.  Columns hold str or missing values (dtype object).  *)
(***************************************************************************)
EXTENDS Naturals, Sequences, FiniteSets, TLC

VARIABLES df, cleaned, recleaned, pc, dataframes, resources, emitted, pos, status, log,
          string, token, given, server, impl, bundle, calls

vars == <<df, cleaned, recleaned, pc, dataframes, resources, emitted, pos, status, log,
          string, token, given, server, impl, bundle, calls>>

---------------------------------------------------------------------------
(* Bounds of the model *)

MaxRows == 2

MaxRecords == 3

\* the longest str given to sanitize_id on its own
MaxLen == 4

\* the most rows of a collection whose entities are uploaded
MaxUploadRows == 2

\* the most further collections, of one department each, behind them
MaxMore == 10

\* the most calls of upload_bundle_to_fhir_server with one list
MaxCalls == 2

---------------------------------------------------------------------------
(* Characters and str methods *)

NaN == <<"NaN">>

\* the characters of the model, in code point order (what sorted() and
\* groupby's sort compare by)
CodePoints ==
    <<" ", "!", "-", ".", "1", "?", "A", "_", "a", "b", "n", "p", "q", "x", "y",
      "|", "NBSP", "CCARON", "ENDASH", "EMDASH", "FWPIPE">>

Ord(c) == CHOOSE i \in 1..Len(CodePoints) : CodePoints[i] = c

\* str.isspace for one character: U+00A0 is white space to str.strip()
isspace(c) == c \in {" ", "NBSP"}

RECURSIVE lstrip(_)
lstrip(s) ==
    IF s # <<>> /\ isspace(Head(s)) THEN lstrip(Tail(s)) ELSE s

RECURSIVE rstrip(_)
rstrip(s) ==
    IF s # <<>> /\ isspace(s[Len(s)]) THEN rstrip(SubSeq(s, 1, Len(s) - 1)) ELSE s

\* str.strip()
strip(s) == rstrip(lstrip(s))

\* str.replace(old, new) for a one-character old and a str new
RECURSIVE replace(_, _, _)
replace(s, old, new) ==
    IF s = <<>> THEN <<>>
    ELSE (IF Head(s) = old THEN new ELSE <<Head(s)>>) \o replace(Tail(s), old, new)

\* str(value): a missing value prints as "nan"
str(v) == IF v = NaN THEN <<"n", "a", "n">> ELSE v

\* pd.isna / pd.notna
isna(v) == v = NaN

\* s < t for two str, as Python compares them (by code point, a proper
\* prefix first)
RECURSIVE StrLess(_, _)
StrLess(s, t) ==
    IF t = <<>> THEN FALSE
    ELSE IF s = <<>> THEN TRUE
    ELSE IF Head(s) # Head(t) THEN Ord(Head(s)) < Ord(Head(t))
    ELSE StrLess(Tail(s), Tail(t))

---------------------------------------------------------------------------
(* cleaner.py *)

\* ftfy.fix_text on the characters of the model: fix_character_width turns
\* the fullwidth vertical line into the ASCII one; the other characters of
\* the model are left as they are (NFC does not change U+00A0 or the dashes)
fix_text(s) == replace(s, "FWPIPE", <<"|">>)

\* fix_encoding without line 22: pipes are kept
fix_encoding_pipe_kept(text) ==
    IF text = NaN THEN text
    ELSE strip(replace(replace(replace(fix_text(text),
             "NBSP", <<" ">>), "ENDASH", <<"-">>), "EMDASH", <<"-">>))

fix_encoding(text) ==
    IF text = NaN THEN text
    ELSE strip(replace(replace(replace(replace(fix_text(text),
             "NBSP", <<" ">>), "ENDASH", <<"-">>), "EMDASH", <<"-">>), "|", <<" ">>))

column_map ==
    [oddeleni |-> <<"oddeleni", "Oddeleni", "Utvar/oddeleni", "Usek/oddeleni">>,
     proces |-> <<"proces", "Nazev procesu", "Procesy", "Proces">>,
     popis_procesu |-> <<"popis_procesu", "Popis procesu",
                         "Popis procesu v organizacnim radu OPZ">>,
     vazba_na_org_rad |-> <<"vazba_na_org_rad", "Vazba na Organizacni rad IO">>]

preserved_cols == <<"email", "telephone_number">>

check_cols == <<"oddeleni", "proces", "popis_procesu", "vazba_na_org_rad">>

desired_order ==
    <<"oddeleni", "proces", "popis_procesu", "vazba_na_org_rad",
      "email", "telephone_number">>

interview_col == "Popis na zaklade rozhovoru"

Range(s) == {s[i] : i \in 1..Len(s)}

\* FoundAlias without the break: the last alias present wins
FoundAlias_last(frame, field) ==
    LET aliases == column_map[field]
        present == {i \in 1..Len(aliases) : aliases[i] \in Range(frame.columns)}
    IN IF present = {} THEN 0
       ELSE CHOOSE i \in present : \A j \in present : j <= i

\* "for source_col in column_map[field]: if source_col in df.columns: ... break":
\* the position in the alias list of the column taken, 0 when none is present
FoundAlias(frame, field) ==
    LET aliases == column_map[field]
        present == {i \in 1..Len(aliases) : aliases[i] \in Range(frame.columns)}
    IN IF present = {} THEN 0
       ELSE CHOOSE i \in present : \A j \in present : i <= j

\* Series.fillna("")
fillna(v) == IF v = NaN THEN <<>> ELSE v

\* the columns new_df has before the missing ones are added: the preserved
\* columns found in df, then the four canonical ones
NewColumns(frame) ==
    SelectSeq(preserved_cols, LAMBDA c : c \in Range(frame.columns)) \o check_cols

\* TRUE when some column of new_df was assigned from a column of df; when
\* none was, every assignment was of the scalar None to a frame without
\* index, and new_df has no row
AssignedFromDf(frame) ==
    \/ \E c \in Range(preserved_cols) : c \in Range(frame.columns)
    \/ \E f \in Range(check_cols) : FoundAlias(frame, f) # 0
    \/ interview_col \in Range(frame.columns)

\* MappedCell with a wrong fallback: a field without alias takes the first
\* column of df instead of None
MappedCell_first_column(frame, row, field) ==
    LET k == FoundAlias(frame, field)
        first == IF k = 0 THEN row[frame.columns[1]] ELSE row[column_map[field][k]]
    IN IF field = "popis_procesu" /\ interview_col \in Range(frame.columns)
       THEN IF k # 0
            THEN fillna(first) \o <<" ">> \o fillna(row[interview_col])
            ELSE row[interview_col]
       ELSE first

\* the cell of one canonical field of one row, lines 53-103
MappedCell(frame, row, field) ==
    LET k == FoundAlias(frame, field)
        first == IF k = 0 THEN NaN ELSE row[column_map[field][k]]
    IN IF field = "popis_procesu" /\ interview_col \in Range(frame.columns)
       THEN IF k # 0
            THEN fillna(first) \o <<" ">> \o fillna(row[interview_col])
            ELSE row[interview_col]
       ELSE first

\* one row of new_df after lines 45-103
MappedRow(frame, row) ==
    [c \in Range(NewColumns(frame)) |->
        IF c \in Range(check_cols) THEN MappedCell(frame, row, c) ELSE row[c]]

\* Blanked without line 109: the placeholder is kept
Blanked_placeholder_kept(v) == fillna(v)

\* new_df.fillna("") then new_df.replace("?", ""), lines 106-109
Blanked(v) == IF fillna(v) = <<"?">> THEN <<>> ELSE fillna(v)

\* non_empty_counts > 0, lines 115-119
KeepRow(row) == \E c \in Range(check_cols) : Blanked(row[c]) # <<>>

\* FinishRow without the fillna of line 106: a missing value stays
FinishRow_null_kept(row) ==
    [c \in Range(desired_order) |->
        IF c \in DOMAIN row
        THEN IF row[c] = NaN THEN NaN ELSE fix_encoding(Blanked(row[c]))
        ELSE <<>>]

\* a row of the returned frame, lines 121-135
FinishRow(row) ==
    [c \in Range(desired_order) |->
        IF c \in DOMAIN row THEN fix_encoding(Blanked(row[c])) ELSE <<>>]

clean_dataframe(frame) ==
    LET n == IF AssignedFromDf(frame) THEN Len(frame.data) ELSE 0
        mapped == [i \in 1..n |-> MappedRow(frame, frame.data[i])]
        kept == SelectSeq([i \in 1..n |-> i], LAMBDA i : KeepRow(mapped[i]))
    IN [columns |-> desired_order,
        index |-> [j \in 1..Len(kept) |-> frame.index[kept[j]]],
        data |-> [j \in 1..Len(kept) |-> FinishRow(mapped[kept[j]])]]


---------------------------------------------------------------------------
(* exporter.py *)

None == <<"None">>

IdChars == {"A", "a", "b", "n", "p", "q", "x", "y", "1", "-", "."}

lower(c) == IF c = "A" THEN "a" ELSE c

\* re.sub(r'-+', '-', s)
RECURSIVE CollapseHyphens(_)
CollapseHyphens(s) ==
    IF Len(s) < 2 THEN s
    ELSE IF s[1] = "-" /\ s[2] = "-" THEN CollapseHyphens(Tail(s))
    ELSE <<s[1]>> \o CollapseHyphens(Tail(s))

RECURSIVE StripHyphens(_)
StripHyphens(s) ==
    IF s # <<>> /\ Head(s) = "-" THEN StripHyphens(Tail(s))
    ELSE IF s # <<>> /\ s[Len(s)] = "-" THEN StripHyphens(SubSeq(s, 1, Len(s) - 1))
    ELSE s

\* sanitize_id without .lower()
sanitize_id_case_kept(text) ==
    StripHyphens(CollapseHyphens(
        [i \in 1..Len(text) |-> IF text[i] \in IdChars THEN text[i] ELSE "-"]))

sanitize_id(text) ==
    StripHyphens(CollapseHyphens(
        [i \in 1..Len(text) |-> IF text[i] \in IdChars THEN lower(text[i]) ELSE "-"]))

\* Series.unique(): the distinct values in order of first appearance,
\* a missing value included
RECURSIVE unique(_)
unique(s) ==
    IF s = <<>> THEN <<>>
    ELSE LET u == unique(SubSeq(s, 1, Len(s) - 1))
         IN IF s[Len(s)] \in Range(u) THEN u ELSE Append(u, s[Len(s)])

\* the keys of a set of str in ascending order
RECURSIVE Sorted(_)
Sorted(S) ==
    IF S = {} THEN <<>>
    ELSE LET m == CHOOSE x \in S : \A y \in S : x = y \/ StrLess(x, y)
         IN <<m>> \o Sorted(S \ {m})

\* the keys that are not missing, in order of first appearance
FirstSeenKeys(rows, col) ==
    SelectSeq(unique([i \in 1..Len(rows) |-> rows[i][col]]), LAMBDA k : k # NaN)

\* groupby as it would be with sort=False
GroupKeys_unsorted(rows, col) == FirstSeenKeys(rows, col)

\* DataFrame.groupby(col) with its defaults sort=True, dropna=True: the keys
\* that are not missing, in ascending order
GroupKeys(rows, col) ==
    Sorted({rows[i][col] : i \in 1..Len(rows)} \ {NaN})

\* the rows of one group, in the order of the frame
Group(rows, col, key) == SelectSeq(rows, LAMBDA r : r[col] = key)

\* "pd.isna(key) or str(key).strip() == ''"
IsBlankKey(key) == isna(key) \/ strip(str(key)) = <<>>

\* Python truth value of parent_org_name: None and "" are false, a missing
\* value (float nan) and any other str are true
Truthy(v) == v # None /\ v # <<>>

RECURSIVE Flatten(_)
Flatten(ss) == IF ss = <<>> THEN <<>> ELSE Head(ss) \o Flatten(Tail(ss))

RECURSIVE Join(_, _)
Join(ss, sep) ==
    IF ss = <<>> THEN <<>>
    ELSE IF Len(ss) = 1 THEN ss[1]
    ELSE ss[1] \o sep \o Join(Tail(ss), sep)

NoReference == [reference |-> None, display |-> None]

\* lines 84-89: the narrative of a department
Narrative(dept_name, group) ==
    LET relations == SelectSeq(unique([i \in 1..Len(group) |-> group[i]["vazba_na_org_rad"]]),
                               LAMBDA r : r # NaN)
        parts == SelectSeq(relations, LAMBDA r : strip(str(r)) # <<>>)
    IN <<"<div><h3>">> \o dept_name \o <<"</h3><ul>">>
       \o Flatten([i \in 1..Len(parts) |-> <<"<li>">> \o parts[i] \o <<"</li>">>])
       \o <<"</ul></div>">>

\* lines 102-119: the Organization of one department
OrganizationOf(dept_name, group, parent_org_name) ==
    [resourceType |-> "Organization",
     id |-> sanitize_id(str(dept_name)),
     name |-> str(dept_name),
     div |-> Narrative(dept_name, group),
     partOf |-> IF Truthy(parent_org_name) /\ dept_name # parent_org_name
                THEN [reference |-> <<"Organization/">> \o sanitize_id(str(parent_org_name)),
                      display |-> str(parent_org_name)]
                ELSE NoReference]

\* PlanDefinitionOf without the test of line 135 for blank text: every
\* description that is not missing is joined
PlanDefinitionOf_blank_kept(dept_name, process_name, process_group, columns) ==
    LET descs == IF "popis_procesu" \in Range(columns)
                 THEN SelectSeq([i \in 1..Len(process_group) |-> process_group[i]["popis_procesu"]],
                                LAMBDA d : ~isna(d))
                 ELSE <<>>
    IN [resourceType |-> "PlanDefinition",
        id |-> sanitize_id(dept_name \o <<"-">> \o process_name),
        status |-> "active",
        name |-> sanitize_id(str(process_name)),
        title |-> str(process_name),
        publisher |-> str(dept_name),
        description |-> Join(descs, <<";", " ">>)]

\* lines 130-153: the PlanDefinition of one process of a department
PlanDefinitionOf(dept_name, process_name, process_group, columns) ==
    LET descs == IF "popis_procesu" \in Range(columns)
                 THEN SelectSeq([i \in 1..Len(process_group) |-> process_group[i]["popis_procesu"]],
                                LAMBDA d : ~isna(d) /\ strip(str(d)) # <<>>)
                 ELSE <<>>
    IN [resourceType |-> "PlanDefinition",
        id |-> sanitize_id(dept_name \o <<"-">> \o process_name),
        status |-> "active",
        name |-> sanitize_id(str(process_name)),
        title |-> str(process_name),
        publisher |-> str(dept_name),
        description |-> Join(descs, <<";", " ">>)]

\* lines 124-155: what the inner loop does for one department: the
\* PlanDefinitions appended and the lines printed
ProcessKeys(group, columns) ==
    IF "proces" \in Range(columns)
    THEN SelectSeq(GroupKeys(group, "proces"), LAMBDA k : ~IsBlankKey(k))
    ELSE <<>>

PlanDefinitionsOf(dept_name, group, columns) ==
    LET keys == SelectSeq(ProcessKeys(group, columns),
                          LAMBDA k : sanitize_id(str(k)) # <<>>)
    IN [i \in 1..Len(keys) |->
          PlanDefinitionOf(dept_name, keys[i], Group(group, "proces", keys[i]), columns)]

SkippedProcesses(df_name, group, columns) ==
    LET keys == SelectSeq(ProcessKeys(group, columns),
                          LAMBDA k : sanitize_id(str(k)) = <<>>)
    IN [i \in 1..Len(keys) |->
          [line |-> "Skipping process with invalid name", process |-> keys[i],
           frame |-> df_name]]

\* the department groups the outer loop does not skip, lines 74-76
DepartmentKeys(rows) ==
    SelectSeq(GroupKeys(rows, "oddeleni"), LAMBDA k : ~IsBlankKey(k))

\* lines 70-71
ParentOrgName(rows) ==
    LET unique_orgs == unique([i \in 1..Len(rows) |-> rows[i]["oddeleni"]])
    IN IF Len(unique_orgs) > 0 THEN unique_orgs[1] ELSE None

\* DepartmentResources with line 121 moved behind the inner loop
DepartmentResources_organization_last(frame, dept_name) ==
    LET group == Group(frame.data, "oddeleni", dept_name)
    IN PlanDefinitionsOf(dept_name, group, frame.columns)
       \o <<OrganizationOf(dept_name, group, ParentOrgName(frame.data))>>

\* the resources one department adds to the list, lines 78-155
DepartmentResources(frame, dept_name) ==
    LET group == Group(frame.data, "oddeleni", dept_name)
    IN <<OrganizationOf(dept_name, group, ParentOrgName(frame.data))>>
       \o PlanDefinitionsOf(dept_name, group, frame.columns)

\* the departments of a frame whose loop body runs to its end: all of them,
\* or, when constructing a resource raises, those before the one that raised.
\* The relation column is read without a test for its presence (KeyError);
\* strict tells whether the Organization model refuses an empty id.
Raises(frame, dept_name, strict) ==
    \/ "vazba_na_org_rad" \notin Range(frame.columns)
    \/ strict /\ sanitize_id(str(dept_name)) = <<>>

RECURSIVE Completed(_, _, _)
Completed(frame, keys, strict) ==
    IF keys = <<>> \/ Raises(frame, Head(keys), strict) THEN <<>>
    ELSE <<Head(keys)>> \o Completed(frame, Tail(keys), strict)

FrameRaises(frame, strict) ==
    /\ "oddeleni" \in Range(frame.columns)
    /\ \E k \in Range(DepartmentKeys(frame.data)) : Raises(frame, k, strict)

FrameResources(frame, strict) ==
    IF "oddeleni" \notin Range(frame.columns) THEN <<>>
    ELSE LET done == Completed(frame, DepartmentKeys(frame.data), strict)
         IN Flatten([i \in 1..Len(done) |-> DepartmentResources(frame, done[i])])

FrameLog(df_name, frame, strict) ==
    IF "oddeleni" \notin Range(frame.columns)
    THEN <<[line |-> "Skipping: standardized column not found", process |-> None,
            frame |-> df_name]>>
    ELSE LET done == Completed(frame, DepartmentKeys(frame.data), strict)
         IN Flatten([i \in 1..Len(done) |->
                SkippedProcesses(df_name, Group(frame.data, "oddeleni", done[i]),
                                 frame.columns)])

---------------------------------------------------------------------------
(* upload_bundle_to_fhir_server: exporter.py and supabase_client.py *)

\* exporter.py line 169
UploadLimit == 10

\* Limited without lines 169-171
Limited_uncut(list) == list

\* exporter.py lines 169-171: resources[:10], a new list of the same objects
Limited(list) ==
    IF Len(list) > UploadLimit THEN SubSeq(list, 1, UploadLimit) ELSE list

\* str(uuid.uuid4()): the value drawn in the given call for the given place
\* of the list; two draws never give the same value
uuid4(call, place) == <<ToString(call), ".", ToString(place)>>

\* {r.id: str(uuid.uuid4()) for r in resources if r.id}: one key per id, the
\* value drawn last for it
id_map(list, call) ==
    LET with_id == {i \in 1..Len(list) : Truthy(list[i].id)}
    IN [k \in {list[i].id : i \in with_id} |->
           uuid4(call, CHOOSE i \in with_id :
                           /\ list[i].id = k
                           /\ \A j \in with_id : list[j].id = k => j <= i)]

\* Bundled without "resource.id = None"
Bundled_id_kept(resource, ids) ==
    IF /\ resource.resourceType = "Organization"
       /\ Head(resource.partOf.reference) = "Organization/"
       /\ Tail(resource.partOf.reference) \in DOMAIN ids
    THEN [resource EXCEPT !.partOf.reference =
                                  <<"urn:uuid:">> \o ids[Tail(resource.partOf.reference)]]
    ELSE resource

\* the resource after the loop body: the reference to its parent rewritten
\* when the parent has a key in id_map, its id removed
Bundled(resource, ids) ==
    IF /\ resource.resourceType = "Organization"
       /\ Head(resource.partOf.reference) = "Organization/"
       /\ Tail(resource.partOf.reference) \in DOMAIN ids
    THEN [resource EXCEPT !.id = None,
                          !.partOf.reference =
                                  <<"urn:uuid:">> \o ids[Tail(resource.partOf.reference)]]
    ELSE [resource EXCEPT !.id = None]

\* BundleEntry(fullUrl=..., resource=resource, request=BundleEntryRequest(...))
BundleEntryOf(resource, ids) ==
    [fullUrl |-> <<"urn:uuid:">> \o ids[resource.id],
     resource |-> Bundled(resource, ids),
     request |-> [method |-> "POST", url |-> resource.resourceType]]

\* exporter.py lines 178-205: the entries of the resources that have an id
EntriesOf(list, ids) ==
    LET with_id == SelectSeq(list, LAMBDA r : Truthy(r.id))
    IN [i \in 1..Len(with_id) |-> BundleEntryOf(with_id[i], ids)]

\* the caller's list after the loop of exporter.py: the objects among the
\* first ten that have an id are changed, the others are not
AfterLoop(list, ids) ==
    [i \in 1..Len(list) |->
        IF i <= Len(Limited(list)) /\ Truthy(list[i].id)
        THEN Bundled(list[i], ids) ELSE list[i]]

\* supabase_client.py lines 97-121: the place of the first resource without
\* id, where id_map[original_id] raises KeyError; 0 when every resource has one
KeyErrorAt(list) ==
    LET without == {i \in 1..Len(list) : ~Truthy(list[i].id)}
    IN IF without = {} THEN 0
       ELSE CHOOSE i \in without : \A j \in without : i <= j

\* the caller's list after the loop of supabase_client.py, which runs up to
\* and into the resource that raises
AfterLoopUnguarded(list, ids) ==
    LET last == IF KeyErrorAt(list) = 0 THEN Len(list) ELSE KeyErrorAt(list)
    IN [i \in 1..Len(list) |-> IF i <= last THEN Bundled(list[i], ids) ELSE list[i]]

---------------------------------------------------------------------------
(* The inputs *)

NoFrame == [columns |-> <<>>, index |-> <<>>, data |-> <<>>]

\* raw cells: missing, empty, white space only, the placeholder, the
\* placeholder after a space, plain text, and text with the characters
\* fix_encoding is about
CellValues ==
    {NaN, <<>>, <<" ">>, <<"?">>, <<" ", "?">>, <<"a">>, <<"a", "|", "b">>,
     <<"a", "NBSP", "ENDASH", "EMDASH", "FWPIPE", "a">>}

NarrowCells == {NaN, <<"b">>, <<" ">>}

\* the raw column sets; the cells of the first column range over CellValues,
\* those of the second over NarrowCells
RawLayouts ==
    {<<"email", "Oddeleni">>,
     <<"Oddeleni", "telephone_number">>,
     <<"Popis procesu", "Popis na zaklade rozhovoru">>,
     <<"Popis na zaklade rozhovoru", "Proces">>,
     <<"Oddeleni", "oddeleni">>,
     <<"Vazba na Organizacni rad IO", "Nazev procesu">>,
     <<"Poznamka", "Resitel">>}

\* the raw frame with the given columns whose rows hold the given pairs of cells
RawFrame(layout, cells) ==
    [columns |-> layout,
     index |-> [i \in 1..Len(cells) |-> i],
     data |-> [i \in 1..Len(cells) |->
                 (layout[1] :> cells[i][1] @@ layout[2] :> cells[i][2])]]

---------------------------------------------------------------------------
(* Cleaning: main.py -c, run twice over the directory "current" *)

Line(text, process, frame) == [line |-> text, process |-> process, frame |-> frame]

InitCleaner ==
    /\ \E layout \in RawLayouts, n \in 0..MaxRows :
          \E cells \in [1..n -> CellValues \X NarrowCells] :
              df = RawFrame(layout, cells)
    /\ cleaned = NoFrame
    /\ recleaned = NoFrame
    /\ pc = "loaded"
    /\ dataframes = <<>>
    /\ resources = <<>>
    /\ emitted = <<>>
    /\ pos = 1
    /\ status = "idle"
    /\ log = <<>>
    /\ string = <<>>
    /\ token = <<>>
    /\ given = <<>>
    /\ server = FALSE
    /\ impl = "exporter"
    /\ bundle = <<>>
    /\ calls = 0

\* clean_all_dataframes on the frame loaded
CleanAll ==
    /\ pc = "loaded"
    /\ cleaned' = clean_dataframe(df)
    /\ log' = log \o <<Line("Cleaning", None, "OPZ"), Line("Saved cleaned", None, "OPZ")>>
    /\ pc' = "cleaned"
    /\ UNCHANGED <<string, token, given, server, impl, bundle, calls>>
    /\ UNCHANGED <<df, recleaned, dataframes, resources, emitted, pos, status>>

\* clean_dataframe applied to the frame it returned
CleanAgain ==
    /\ pc = "cleaned"
    /\ recleaned' = clean_dataframe(cleaned)
    /\ log' = log \o <<Line("Cleaning", None, "OPZ"), Line("Saved cleaned", None, "OPZ")>>
    /\ pc' = "recleaned"
    /\ UNCHANGED <<string, token, given, server, impl, bundle, calls>>
    /\ UNCHANGED <<df, cleaned, dataframes, resources, emitted, pos, status>>

NextCleaner == CleanAll \/ CleanAgain

SpecCleaner == InitCleaner /\ [][NextCleaner]_vars

---------------------------------------------------------------------------
(* Deriving the resources: main.py -g / -f *)

CanonicalRow(oddeleni, proces, popis_procesu, vazba_na_org_rad) ==
    [c \in Range(check_cols) |->
        IF c = "oddeleni" THEN oddeleni
        ELSE IF c = "proces" THEN proces
        ELSE IF c = "popis_procesu" THEN popis_procesu
        ELSE vazba_na_org_rad]

\* department cells: missing, empty, white space only, names that differ in
\* case only, a name that sorts after them, a name without a character an id
\* can hold
DepartmentCells == {NaN, <<>>, <<" ">>, <<"a">>, <<"A">>, <<"b">>, <<"!">>}

ExporterRows ==
    {CanonicalRow(d, <<"p">>, <<"x">>, <<"x">>) : d \in DepartmentCells}
    \cup {CanonicalRow(<<"a">>, <<"q">>, <<"y">>, NaN),
          CanonicalRow(<<"a">>, <<"p">>, <<"y">>, <<"y">>),
          CanonicalRow(<<"a">>, <<"p">>, <<" ">>, <<" ">>),
          CanonicalRow(<<"a">>, NaN, <<"y">>, NaN),
          CanonicalRow(<<"a">>, <<"!">>, <<"y">>, NaN)}

FrameOf(columns, rows) ==
    [columns |-> columns,
     index |-> [i \in 1..Len(rows) |-> i],
     data |-> [i \in 1..Len(rows) |-> [c \in Range(columns) |-> rows[i][c]]]]

\* the second collection: plain, empty, or without one of the columns
SecondFrames ==
    {FrameOf(check_cols, <<CanonicalRow(<<"b">>, <<"q">>, <<"y">>, NaN),
                           CanonicalRow(<<"a">>, <<"p">>, <<"x">>, <<"x">>)>>),
     FrameOf(check_cols, <<>>),
     FrameOf(<<"proces", "popis_procesu", "vazba_na_org_rad">>,
             <<CanonicalRow(<<"b">>, <<"q">>, <<"y">>, NaN)>>),
     FrameOf(<<"oddeleni", "popis_procesu", "vazba_na_org_rad">>,
             <<CanonicalRow(<<"b">>, <<"q">>, <<"y">>, NaN)>>),
     FrameOf(<<"oddeleni", "proces", "popis_procesu">>,
             <<CanonicalRow(<<"b">>, <<"q">>, <<"y">>, NaN)>>)}

InitExporter ==
    /\ \E n \in 0..MaxRecords, f2 \in SecondFrames :
          \E rows \in [1..n -> ExporterRows] :
              dataframes = <<[name |-> "CI", frame |-> FrameOf(check_cols, rows)],
                             [name |-> "EO", frame |-> f2]>>
    /\ resources = <<>>
    /\ emitted = <<>>
    /\ pos = 1
    /\ status = "running"
    /\ log = <<>>
    /\ df = NoFrame
    /\ cleaned = NoFrame
    /\ recleaned = NoFrame
    /\ pc = "idle"
    /\ string = <<>>
    /\ token = <<>>
    /\ given = <<>>
    /\ server = FALSE
    /\ impl = "exporter"
    /\ bundle = <<>>
    /\ calls = 0

\* one turn of "for df_name, df in dataframes.items()"; emitted records what
\* each turn appended to resources
ProcessDataframe ==
    /\ status = "running"
    /\ pos <= Len(dataframes)
    /\ \E strict \in BOOLEAN :
         LET df_name == dataframes[pos].name
             frame == dataframes[pos].frame
         IN /\ resources' = resources \o FrameResources(frame, strict)
            /\ emitted' = Append(emitted, FrameResources(frame, strict))
            /\ log' = log \o FrameLog(df_name, frame, strict)
            /\ IF FrameRaises(frame, strict)
               THEN status' = "raised" /\ pos' = pos
               ELSE status' = status /\ pos' = pos + 1
    /\ UNCHANGED <<string, token, given, server, impl, bundle, calls>>
    /\ UNCHANGED <<df, cleaned, recleaned, pc, dataframes>>

\* "return resources"
Return ==
    /\ status = "running"
    /\ pos > Len(dataframes)
    /\ status' = "returned"
    /\ UNCHANGED <<string, token, given, server, impl, bundle, calls>>
    /\ UNCHANGED <<df, cleaned, recleaned, pc, dataframes, resources, emitted, pos, log>>

NextExporter == ProcessDataframe \/ Return

SpecExporter == InitExporter /\ [][NextExporter]_vars

---------------------------------------------------------------------------
(* sanitize_id called on its own *)

\* the characters of the str given: letters of both cases, a digit, the
\* hyphen, the dot, a character the pattern rejects and a letter outside ASCII
SanitizeChars == {"A", "a", "1", "-", ".", "!", "CCARON"}

InitSanitize ==
    /\ \E n \in 0..MaxLen : \E s \in [1..n -> SanitizeChars] : string = s
    /\ token = <<>>
    /\ pc = "given"
    /\ df = NoFrame
    /\ cleaned = NoFrame
    /\ recleaned = NoFrame
    /\ dataframes = <<>>
    /\ resources = <<>>
    /\ emitted = <<>>
    /\ pos = 1
    /\ status = "idle"
    /\ log = <<>>
    /\ given = <<>>
    /\ server = FALSE
    /\ impl = "exporter"
    /\ bundle = <<>>
    /\ calls = 0

Sanitize ==
    /\ pc = "given"
    /\ token' = sanitize_id(str(string))
    /\ pc' = "sanitized"
    /\ UNCHANGED <<df, cleaned, recleaned, dataframes, resources, emitted, pos, status, log,
                   string, given, server, impl, bundle, calls>>

NextSanitize == Sanitize

SpecSanitize == InitSanitize /\ [][NextSanitize]_vars

---------------------------------------------------------------------------
(* Uploading: main.py -f, the list create_fhir_resources returned given to *)
(* upload_bundle_to_fhir_server, and given to it again                     *)

\* rows of the collections uploaded: two departments with a process, a
\* department whose id is that of another, a department without id
UploadRows ==
    {CanonicalRow(<<"a">>, <<"p">>, <<"x">>, NaN),
     CanonicalRow(<<"b">>, <<"p">>, <<"x">>, NaN),
     CanonicalRow(<<"A">>, NaN, NaN, NaN),
     CanonicalRow(<<"!">>, NaN, NaN, NaN)}

\* what create_fhir_resources returns for the i-th of the further
\* collections, a single row of a department named "x" i times
MoreResources(i) ==
    FrameResources(FrameOf(check_cols,
                           <<CanonicalRow([j \in 1..i |-> "x"], NaN, NaN, NaN)>>),
                   FALSE)

InitUpload ==
    /\ \E n \in 0..MaxUploadRows, m \in 0..1, more \in 0..MaxMore :
          \E first \in [1..n -> UploadRows], second \in [1..m -> UploadRows] :
              given = FrameResources(FrameOf(check_cols, first), FALSE)
                      \o FrameResources(FrameOf(check_cols, second), FALSE)
                      \o Flatten([i \in 1..more |-> MoreResources(i)])
    /\ resources = given
    /\ server \in BOOLEAN
    /\ impl \in {"exporter", "supabase_client"}
    /\ bundle = <<>>
    /\ calls = 0
    /\ pc = "call"
    /\ status = "idle"
    /\ log = <<>>
    /\ df = NoFrame
    /\ cleaned = NoFrame
    /\ recleaned = NoFrame
    /\ dataframes = <<>>
    /\ emitted = <<>>
    /\ pos = 1
    /\ string = <<>>
    /\ token = <<>>

\* either version without FHIR_SERVER: exporter.py lines 164-166,
\* supabase_client.py lines 88-90
NoServer ==
    /\ pc \in {"call", "done"}
    /\ calls < MaxCalls
    /\ ~server
    /\ calls' = calls + 1
    /\ log' = Append(log, Line("FHIR_SERVER environment variable not set.", None, None))
    /\ pc' = "done"
    /\ UNCHANGED <<resources, bundle>>
    /\ UNCHANGED <<df, cleaned, recleaned, dataframes, emitted, pos, status,
                   string, token, given, server, impl>>

\* exporter.py lines 168-210: the bundle is built and is about to be posted
UploadExporter ==
    /\ pc \in {"call", "done"}
    /\ calls < MaxCalls
    /\ server
    /\ impl = "exporter"
    /\ LET list == Limited(resources)
           ids == id_map(list, calls + 1)
       IN /\ resources' = AfterLoop(resources, ids)
          /\ bundle' = EntriesOf(list, ids)
          /\ log' = log
                    \o (IF Len(list) < Len(resources)
                        THEN <<Line("Limiting upload to first 10 resources", None, None)>>
                        ELSE <<>>)
                    \o <<Line("Uploading transaction bundle", None, None)>>
    /\ calls' = calls + 1
    /\ pc' = "posting"
    /\ UNCHANGED <<df, cleaned, recleaned, dataframes, emitted, pos, status,
                   string, token, given, server, impl>>

\* supabase_client.py lines 93-123: no limit, and no test of original_id
\* before id_map[original_id]
UploadSupabaseClient ==
    /\ pc \in {"call", "done"}
    /\ calls < MaxCalls
    /\ server
    /\ impl = "supabase_client"
    /\ LET ids == id_map(resources, calls + 1)
       IN /\ resources' = AfterLoopUnguarded(resources, ids)
          /\ IF KeyErrorAt(resources) = 0
             THEN /\ bundle' = EntriesOf(resources, ids)
                  /\ log' = Append(log, Line("Uploading transaction bundle", None, None))
                  /\ pc' = "posting"
             ELSE /\ bundle' = <<>>
                  /\ log' = log
                  /\ pc' = "raised"
    /\ calls' = calls + 1
    /\ UNCHANGED <<df, cleaned, recleaned, dataframes, emitted, pos, status,
                   string, token, given, server, impl>>

\* requests.post and raise_for_status return
PostSucceeds ==
    /\ pc = "posting"
    /\ log' = Append(log, Line("Upload successful!", None, None))
    /\ pc' = "done"
    /\ UNCHANGED <<resources, bundle, calls>>
    /\ UNCHANGED <<df, cleaned, recleaned, dataframes, emitted, pos, status,
                   string, token, given, server, impl>>

\* requests.post or raise_for_status raises RequestException, with or
\* without a response
PostFails ==
    /\ pc = "posting"
    /\ \E with_response \in BOOLEAN :
          log' = log
                 \o <<Line("Failed to upload bundle", None, None)>>
                 \o (IF with_response THEN <<Line("Server response", None, None)>> ELSE <<>>)
    /\ pc' = "done"
    /\ UNCHANGED <<resources, bundle, calls>>
    /\ UNCHANGED <<df, cleaned, recleaned, dataframes, emitted, pos, status,
                   string, token, given, server, impl>>

NextUpload ==
    NoServer \/ UploadExporter \/ UploadSupabaseClient \/ PostSucceeds \/ PostFails

SpecUpload == InitUpload /\ [][NextUpload]_vars

---------------------------------------------------------------------------
(* Properties of clean_dataframe, checked under SpecCleaner *)

ForbiddenChars == {"|", "ENDASH", "EMDASH", "NBSP"}

HasForbidden(cell) == \E k \in 1..Len(cell) : cell[k] \in ForbiddenChars

\* the raw row a row of the cleaned frame was made from
RawRow(j) == df.data[cleaned.index[j]]

PreservedPresent == Range(preserved_cols) \cap Range(df.columns)

\* C1: every row of the frame clean_dataframe returns has at least one of
\* the four canonical fields non-empty after trimming.
C1_EveryRowHasCanonicalData ==
    \A j \in 1..Len(cleaned.data) :
        \E c \in Range(check_cols) : strip(cleaned.data[j][c]) # <<>>

\* C2: clean_dataframe is idempotent: applied to the frame it returned, it
\* returns the same rows, in the same order, with the same cell values.
C2_CleanIdempotent ==
    pc = "recleaned" => recleaned.data = cleaned.data

\* C8 as stated: when the raw table lacks every alias of a canonical field,
\* the field is empty in every surviving row and a diagnostic about the
\* missing column is printed.
C8_MissingFieldEmptyAndReported ==
    pc # "loaded" =>
        \A f \in Range(check_cols) :
            FoundAlias(df, f) = 0 =>
                /\ \A j \in 1..Len(cleaned.data) : cleaned.data[j][f] = <<>>
                /\ \E k \in 1..Len(log) : log[k].line \notin {"Cleaning", "Saved cleaned"}

\* C8 as amended: when the raw table lacks every alias of a canonical field
\* (and, for the description, the interview-description column as well), the
\* field is the empty string in every surviving row, and nothing is printed
\* about the missing column: the only lines are those of clean_all_dataframes.
C8_MissingFieldEmptyUnreported ==
    pc # "loaded" =>
        /\ \A f \in Range(check_cols) :
              (/\ FoundAlias(df, f) = 0
               /\ ~(f = "popis_procesu" /\ interview_col \in Range(df.columns))) =>
                  \A j \in 1..Len(cleaned.data) : cleaned.data[j][f] = <<>>
        /\ \A k \in 1..Len(log) : log[k].line \in {"Cleaning", "Saved cleaned"}

\* C8 witness: a frame without any alias of the department was cleaned and
\* rows of it survive.
C8_Witness ==
    /\ pc = "cleaned"
    /\ FoundAlias(df, "oddeleni") = 0
    /\ FoundAlias(df, "proces") # 0
    /\ Len(cleaned.data) >= 2

\* C9 as stated: the email and telephone_number cell of every surviving row
\* equals that row's cell in the raw table.
C9_ContactCellsUnchanged ==
    pc # "loaded" =>
        \A j \in 1..Len(cleaned.data) : \A c \in PreservedPresent :
            cleaned.data[j][c] = RawRow(j)[c]

\* C9 as amended: the email and telephone_number cell of every surviving row
\* is that row's raw cell after the treatment every column gets: a missing
\* value and the lone placeholder "?" become the empty string, any other
\* text goes through fix_encoding.
C9_ContactCellsRepaired ==
    pc # "loaded" =>
        \A j \in 1..Len(cleaned.data) : \A c \in PreservedPresent :
            cleaned.data[j][c] =
                IF RawRow(j)[c] \in {NaN, <<"?">>} THEN <<>>
                ELSE fix_encoding(RawRow(j)[c])

\* C9 witness: a row survives behind a dropped one, and its raw email holds
\* a pipe.
C9_Witness ==
    /\ pc = "cleaned"
    /\ "email" \in Range(df.columns)
    /\ \E j \in 1..Len(cleaned.data) :
          /\ cleaned.index[j] # j
          /\ RawRow(j)["email"] = <<"a", "|", "b">>

\* C10: no cell of the frame clean_dataframe returns holds a pipe, an
\* en-dash, an em-dash or a non-breaking space.
C10_NoForbiddenCharacter ==
    \A j \in 1..Len(cleaned.data) : \A c \in Range(cleaned.columns) :
        ~HasForbidden(cleaned.data[j][c])

\* C10 witness: two rows survive, one with a pipe in a raw cell, one with a
\* non-breaking space, the dashes and a fullwidth vertical line.
C10_Witness ==
    /\ pc = "cleaned"
    /\ \E j \in 1..Len(cleaned.data) : \E c \in Range(df.columns) :
          RawRow(j)[c] = <<"a", "|", "b">>
    /\ \E j \in 1..Len(cleaned.data) : \E c \in Range(df.columns) :
          RawRow(j)[c] = <<"a", "NBSP", "ENDASH", "EMDASH", "FWPIPE", "a">>

---------------------------------------------------------------------------
(* Properties of create_fhir_resources, checked under SpecExporter *)

Organizations(list) == SelectSeq(list, LAMBDA e : e.resourceType = "Organization")

OrganizationNames(list) ==
    [i \in 1..Len(Organizations(list)) |-> Organizations(list)[i].name]

\* the titles of the PlanDefinitions of one department, in list order
ProcessTitles(list, dept) ==
    LET plans == SelectSeq(list, LAMBDA e : e.resourceType = "PlanDefinition")
        own == SelectSeq(plans, LAMBDA e : e.publisher = dept)
    IN [i \in 1..Len(own) |-> own[i].title]

Ascending(names) ==
    \A i, j \in 1..Len(names) : i < j => StrLess(names[i], names[j])

Rows(k) == dataframes[k].frame.data

Columns(k) == Range(dataframes[k].frame.columns)

IsCanonical(k) == Range(check_cols) \subseteq Columns(k)

\* the turn for collection k ran to its end
TurnCompleted(k) == k < Len(emitted) \/ (k = Len(emitted) /\ status # "raised")

\* the department values of collection k that are not blank, and the process
\* values of one department that are not blank and have a sanitized name
Departments(k) == {Rows(k)[i]["oddeleni"] : i \in 1..Len(Rows(k))} \ {v \in {Rows(k)[i]["oddeleni"] : i \in 1..Len(Rows(k))} : IsBlankKey(v)}

ProcessesOf(k, dept) ==
    {r["proces"] : r \in {x \in Range(Rows(k)) : x["oddeleni"] = dept}}

NamedProcessesOf(k, dept) ==
    {v \in ProcessesOf(k, dept) : ~IsBlankKey(v) /\ sanitize_id(str(v)) # <<>>}

\* C3: in a canonical table whose first row has department A and a later row
\* a different non-blank department B, an Organization is emitted for B whose
\* parent reference is sanitize_id(A), and the Organization for A is emitted
\* without a parent reference.
C3_LaterDepartmentLinkedToFirst ==
    status \in {"returned", "raised"} =>
        \A k \in 1..Len(dataframes) :
            (IsCanonical(k) /\ Len(Rows(k)) > 0) =>
                LET A == Rows(k)[1]["oddeleni"]
                    orgs == Range(Organizations(emitted[k]))
                IN \A i \in 2..Len(Rows(k)) :
                      LET B == Rows(k)[i]["oddeleni"]
                      IN (B # A /\ ~IsBlankKey(B)) =>
                            /\ \E e \in orgs :
                                  /\ e.name = B
                                  /\ e.partOf.reference =
                                        <<"Organization/">> \o sanitize_id(str(A))
                            /\ \E e \in orgs :
                                  e.name = str(A) /\ e.partOf = NoReference

\* C4: every Organization emitted with a parent reference refers to the id
\* of another Organization emitted for the same source collection.
C4_ParentIsEmitted ==
    status = "returned" =>
        \A k \in 1..Len(emitted) :
            LET orgs == Range(Organizations(emitted[k]))
            IN \A e \in orgs :
                  e.partOf # NoReference =>
                      \E p \in orgs :
                          p # e /\ e.partOf.reference = <<"Organization/">> \o p.id

\* C5 as stated: Organizations are emitted in the order in which their
\* department values first appear in the rows, and the PlanDefinitions of a
\* department in the order in which their process values first appear in
\* that department's rows.
C5_FirstAppearanceOrder ==
    status = "returned" =>
        \A k \in 1..Len(emitted) :
            "oddeleni" \in Columns(k) =>
                /\ OrganizationNames(emitted[k]) =
                      SelectSeq(FirstSeenKeys(Rows(k), "oddeleni"),
                                LAMBDA d : ~IsBlankKey(d))
                /\ "proces" \in Columns(k) =>
                      \A d \in Departments(k) :
                          ProcessTitles(emitted[k], d) =
                              SelectSeq(FirstSeenKeys(Group(Rows(k), "oddeleni", d), "proces"),
                                        LAMBDA v : v \in NamedProcessesOf(k, d))

\* C5 as amended: Organizations are emitted in ascending order of their
\* department values (compared as str, by code point), one for each
\* non-blank department value, and the PlanDefinitions of a department in
\* ascending order of their process values; the order of first appearance
\* in the rows plays no part.
C5_AscendingOrder ==
    \A k \in 1..Len(emitted) :
        LET names == OrganizationNames(emitted[k])
        IN /\ Ascending(names)
           /\ (TurnCompleted(k) /\ "oddeleni" \in Columns(k)) =>
                 Range(names) = Departments(k)
           /\ \A i \in 1..Len(names) :
                 LET titles == ProcessTitles(emitted[k], names[i])
                 IN /\ Ascending(titles)
                    /\ "proces" \in Columns(k) =>
                          Range(titles) = NamedProcessesOf(k, names[i])

\* C5 witness: a run returned in which the departments of the first
\* collection first appear as "b" then "a", and the processes of "a" as
\* "q" then "p".
C5_Witness ==
    /\ status = "returned"
    /\ Len(Rows(1)) = 3
    /\ Rows(1)[1]["oddeleni"] = <<"b">>
    /\ Rows(1)[2]["oddeleni"] = <<"a">> /\ Rows(1)[2]["proces"] = <<"q">>
    /\ Rows(1)[3]["oddeleni"] = <<"a">> /\ Rows(1)[3]["proces"] = <<"p">>
    /\ OrganizationNames(emitted[1]) = <<(<<"a">>), (<<"b">>)>>
    /\ ProcessTitles(emitted[1], <<"a">>) = <<(<<"p">>), (<<"q">>)>>

\* C6: within one source collection no two Organizations emitted for
\* different department values have the same id.
C6_DistinctDepartmentsDistinctIds ==
    status = "returned" =>
        \A k \in 1..Len(emitted) :
            \A e1, e2 \in Range(Organizations(emitted[k])) :
                e1.name # e2.name => e1.id # e2.id

\* C7: no entity with an empty id is ever emitted: when the sanitized
\* identifier of a department or of a process name is empty, no entity is
\* created, a diagnostic is printed and processing goes on (nothing raises).
C7_EmptyIdSkippedAndReported ==
    /\ status # "raised"
    /\ \A i \in 1..Len(resources) : resources[i].id # <<>>
    /\ \A k \in 1..Len(emitted) :
          (TurnCompleted(k) /\ IsCanonical(k)) =>
              \A d \in Departments(k) :
                  /\ sanitize_id(str(d)) = <<>> =>
                        \E l \in 1..Len(log) : log[l].frame = dataframes[k].name
                  /\ \A v \in ProcessesOf(k, d) :
                        (~IsBlankKey(v) /\ sanitize_id(str(v)) = <<>>) =>
                            \E l \in 1..Len(log) :
                                log[l].frame = dataframes[k].name /\ log[l].process = v


PlanDefinitions(list) == SelectSeq(list, LAMBDA e : e.resourceType = "PlanDefinition")

\* the PlanDefinitions emitted for collection k with the given publisher and title
PlansFor(k, dept, process) ==
    SelectSeq(PlanDefinitions(emitted[k]),
              LAMBDA e : e.publisher = dept /\ e.title = process)

\* the descriptions of the rows of collection k with the given department
\* and process that are neither missing nor blank, in row order, joined
JoinedDescriptions(k, dept, process) ==
    LET own == SelectSeq(Rows(k), LAMBDA r : r["oddeleni"] = dept /\ r["proces"] = process)
        texts == SelectSeq([i \in 1..Len(own) |-> own[i]["popis_procesu"]],
                           LAMBDA t : t # NaN /\ strip(t) # <<>>)
    IN Join(texts, <<";", " ">>)

IsProcessEntityOf(e, k, dept, process) ==
    /\ e.description = JoinedDescriptions(k, dept, process)
    /\ e.publisher = dept
    /\ e.status = "active"

OrganizationBefore(list, j) ==
    LET before == {i \in 1..(j - 1) : list[i].resourceType = "Organization"}
    IN IF before = {} THEN 0 ELSE CHOOSE i \in before : \A h \in before : h <= i

\* C12: in the list of resources every Organization is directly followed by
\* all Process entities of its department before any other Organization,
\* and the entities of one collection are contiguous, the collections in the
\* order of the input mapping.
C12_OrganizationThenItsProcesses ==
    /\ resources = Flatten(emitted)
    /\ \A k \in 1..Len(emitted) :
          /\ "oddeleni" \in Columns(k) =>
                Range(OrganizationNames(emitted[k])) \subseteq Departments(k)
          /\ "oddeleni" \notin Columns(k) => emitted[k] = <<>>
          /\ \A j \in 1..Len(emitted[k]) :
                emitted[k][j].resourceType = "PlanDefinition" =>
                    /\ OrganizationBefore(emitted[k], j) # 0
                    /\ emitted[k][OrganizationBefore(emitted[k], j)].name =
                          emitted[k][j].publisher
          /\ \A i, j \in 1..Len(Organizations(emitted[k])) :
                i # j => Organizations(emitted[k])[i].name # Organizations(emitted[k])[j].name

\* C12 witness: a run returned in which both collections gave entities and
\* the first gave two Organizations, each with a Process entity.
C12_Witness ==
    /\ status = "returned"
    /\ Len(emitted) = 2
    /\ Len(Organizations(emitted[1])) = 2
    /\ \A i \in 1..2 :
          ProcessTitles(emitted[1], Organizations(emitted[1])[i].name) # <<>>
    /\ Len(Organizations(emitted[2])) = 2


SixColumns ==
    <<"oddeleni", "proces", "popis_procesu", "vazba_na_org_rad",
      "email", "telephone_number">>

HasSixColumnsAndNoNull(frame) ==
    /\ frame.columns = SixColumns
    /\ \A j \in 1..Len(frame.data) :
          /\ DOMAIN frame.data[j] = Range(SixColumns)
          /\ \A c \in Range(SixColumns) : frame.data[j][c] # NaN

\* C14: the frame clean_dataframe returns has exactly the columns oddeleni,
\* proces, popis_procesu, vazba_na_org_rad, email, telephone_number, in that
\* order, and no cell of it is null.
C14_SixColumnsNoNull ==
    /\ pc # "loaded" => HasSixColumnsAndNoNull(cleaned)
    /\ pc = "recleaned" => HasSixColumnsAndNoNull(recleaned)

\* C14 witness: a frame without email and without three of the canonical
\* fields was cleaned, and a row survives whose raw cells include a null.
C14_Witness ==
    /\ pc = "cleaned"
    /\ "email" \notin Range(df.columns)
    /\ FoundAlias(df, "proces") = 0
    /\ \E j \in 1..Len(cleaned.data) :
          \E c \in Range(df.columns) : RawRow(j)[c] = NaN

\* the value clean_dataframe returns for a cell that was assigned v
Treated(v) ==
    IF v \in {NaN, <<"?">>} THEN <<>> ELSE fix_encoding(v)

\* C17: for each canonical field clean_dataframe takes the first alias, in
\* the order of the alias list, that is a column of the raw table, whatever
\* later aliases are present; the description gets the interview column
\* appended after one space, a missing value on either side being empty.
C17_FirstAliasWins ==
    pc # "loaded" =>
        \A f \in Range(check_cols) :
            \A i \in 1..Len(column_map[f]) :
                (/\ column_map[f][i] \in Range(df.columns)
                 /\ \A h \in 1..(i - 1) : column_map[f][h] \notin Range(df.columns)) =>
                    \A j \in 1..Len(cleaned.data) :
                        LET taken == RawRow(j)[column_map[f][i]]
                        IN cleaned.data[j][f] =
                              IF f = "popis_procesu" /\ interview_col \in Range(df.columns)
                              THEN Treated((IF taken = NaN THEN <<>> ELSE taken)
                                           \o <<" ">>
                                           \o (IF RawRow(j)[interview_col] = NaN THEN <<>>
                                               ELSE RawRow(j)[interview_col]))
                              ELSE Treated(taken)

\* C17 witness: a frame with two aliases of the department was cleaned and
\* a row survives in which the two cells differ.
C17_Witness ==
    /\ pc = "cleaned"
    /\ {"oddeleni", "Oddeleni"} \subseteq Range(df.columns)
    /\ \E j \in 1..Len(cleaned.data) :
          /\ RawRow(j)["Oddeleni"] = <<"a">>
          /\ RawRow(j)["oddeleni"] = <<"b">>
          /\ cleaned.data[j]["oddeleni"] = <<"b">>


---------------------------------------------------------------------------
(* Properties of sanitize_id, checked under SpecSanitize *)

\* the lowercase ASCII letters, the digits, the hyphen and the dot
TokenChars == {"a", "b", "n", "p", "q", "x", "y", "1", "-", "."}

\* C13: the token sanitize_id returns holds only lowercase ASCII letters,
\* digits, hyphens and dots, neither starts nor ends with a hyphen and has
\* no two hyphens in a row; it may be empty.
C13_TokenWellFormed ==
    pc = "sanitized" =>
        /\ \A i \in 1..Len(token) : token[i] \in TokenChars
        /\ token # <<>> => token[1] # "-" /\ token[Len(token)] # "-"
        /\ \A i \in 1..(Len(token) - 1) : ~(token[i] = "-" /\ token[i + 1] = "-")

\* C13 witness: sanitize_id returned for a str with a capital letter
\* followed by two rejected characters in a row and a digit.
C13_Witness ==
    /\ pc = "sanitized"
    /\ string = <<"A", "!", "CCARON", "1">>
    /\ token = <<"a", "-", "1">>


---------------------------------------------------------------------------
(* Properties of upload_bundle_to_fhir_server, checked under SpecUpload *)

\* the bundle of the first call of the exporter.py version has been built
FirstBundleBuilt == impl = "exporter" /\ calls = 1 /\ pc = "posting"

EveryEntityHasId == \A i \in 1..Len(given) : Truthy(given[i].id)

\* entry e creates (POST) the entity r of the list given
CreatesEntity(e, r) ==
    /\ e.request = [method |-> "POST", url |-> r.resourceType]
    /\ e.resource.resourceType = r.resourceType
    /\ IF r.resourceType = "Organization"
       THEN e.resource.name = r.name
       ELSE e.resource.title = r.title /\ e.resource.publisher = r.publisher

\* C15 as stated: for a list of any length in which every entity has an id,
\* the bundle posted by the exporter.py version has exactly one POST entry
\* per entity of the list.
C15_OneEntryPerEntity ==
    (FirstBundleBuilt /\ EveryEntityHasId) =>
        /\ Len(bundle) = Len(given)
        /\ \A i \in 1..Len(given) : CreatesEntity(bundle[i], given[i])

\* C15 as amended: with FHIR_SERVER set, the bundle has exactly one POST
\* entry per entity among the first ten of the list, in list order, and none
\* for a later entity, which is left as it was; a list of more than ten is
\* cut with a printed notice.
C15_OneEntryPerEntityOfFirstTen ==
    (FirstBundleBuilt /\ EveryEntityHasId) =>
        LET n == IF Len(given) > UploadLimit THEN UploadLimit ELSE Len(given)
        IN /\ Len(bundle) = n
           /\ \A i \in 1..n : CreatesEntity(bundle[i], given[i])
           /\ \A i \in (n + 1)..Len(given) : resources[i] = given[i]
           /\ Len(given) > UploadLimit <=>
                 \E k \in 1..Len(log) : log[k].line = "Limiting upload to first 10 resources"

\* C15 witness: the bundle was built for a list of twelve entities that all
\* have an id.
C15_Witness ==
    /\ FirstBundleBuilt
    /\ EveryEntityHasId
    /\ Len(given) = UploadLimit + 2
    /\ Len(bundle) = UploadLimit

\* C16: the fullUrl values of the entries of a bundle are pairwise distinct,
\* whatever ids the entities of the list carry.
C16_FullUrlsDistinct ==
    pc = "posting" =>
        \A i, j \in 1..Len(bundle) :
            i # j => bundle[i].fullUrl # bundle[j].fullUrl

\* the first ten entities of the list have no id
FirstTenCleared ==
    \A i \in 1..Len(resources) : i <= UploadLimit => ~Truthy(resources[i].id)

\* C18: the exporter.py version has cleared the id of every entity it
\* bundles when the bundle is about to be posted, and the ids stay cleared
\* whether the post succeeds or fails; the bundle a second call builds for
\* the same list has no entry.
C18_IdsClearedBeforePost ==
    (impl = "exporter" /\ server /\ calls >= 1) =>
        /\ \A i \in 1..Len(bundle) : bundle[i].resource.id = None
        /\ FirstTenCleared
        /\ calls >= 2 => bundle = <<>>

\* C18 witness: the post of a bundle of ten entries failed and the second
\* call has built its bundle.
C18_Witness ==
    /\ impl = "exporter"
    /\ calls = 2
    /\ pc = "posting"
    /\ Len(given) > UploadLimit
    /\ EveryEntityHasId
    /\ \E k \in 1..Len(log) : log[k].line = "Failed to upload bundle"
    /\ bundle = <<>>

=============================================================================
